---------------------------- MODULE Spec2Model ----------------------------
(***************************************************************************)
(* hoist-modules (src/index.js): the hoisting engine and its version       *)
(* resolver.                                                               *)
(*                                                                         *)
(* Two specifications share this module:                                   *)
(*   Spec          one hoist run: copyDependencies over the dependency     *)
(*                 tree, the .pnpm store index and the CopyMap;            *)
(*   SpecResolver  the store lookup of copyDependency taken alone: sort    *)
(*                 the candidate versions, scan them for the range.        *)
(*                                                                         *)
(* A version is the string of package.json, kept as its characters         *)
(* ("1.10.0" is <<"1",".","1","0",".","0">>), so that split('.') and       *)
(* Number() are modelled by what they do.  A range is a valid semver range *)
(* in parsed form: the sequence of its ||-alternatives, each one           *)
(* comparator (^v, ~v, =v, >=v) in the order it is written in the string.  *)
(* A directory is the sequence of its path segments below the target       *)
(* directory: <<>> is the target directory, <<"a">> is target/a,           *)
(* <<"a","node_modules","b">> is target/a/node_modules/b.                  *)
(***************************************************************************)
EXTENDS Integers, Sequences, FiniteSets

VARIABLES
    wantDependencies,       \* record -> its wantDependencies, in key order
    installedDependencies,  \* record -> (name -> record in its node_modules)
    cachedModuleMap,        \* name -> the store records indexed under it
    copyMap,                \* name -> the record hoisted to target/<name>
    targetDir,              \* record -> its targetDir field
    stack,                  \* active copyDependencies calls, outermost first
    copyLog,                \* every copyDir call of _copyDependency, in order
    diagnostics,            \* every console.error of copyDependency, in order
    pc,                     \* "idle" | "copy" | "done"
    numModules,             \* what hoist logs as "Copied N modules"
    rsVersions,             \* resolver: versions indexed for the name
    rsRange,                \* resolver: the required range
    rsSorted,               \* resolver: cachedModuleVersions after sort
    rsResult,               \* resolver: lastSatisfyingVersion
    rsPc                    \* "idle" | "sort" | "scan" | "done"

vars == <<wantDependencies, installedDependencies, cachedModuleMap, copyMap,
          targetDir, stack, copyLog, diagnostics, pc, numModules,
          rsVersions, rsRange, rsSorted, rsResult, rsPc>>

hoistVars == <<wantDependencies, installedDependencies, cachedModuleMap,
               copyMap, targetDir, stack, copyLog, diagnostics, pc, numModules>>

resolverVars == <<rsVersions, rsRange, rsSorted, rsResult, rsPc>>

-----------------------------------------------------------------------------
(* Bounds of the model.                                                    *)

\* Deepest nesting of copyDependencies calls the model follows.
MaxDepth == 8

\* Most versions of one name the resolver is given.
MaxCandidates == 4

-----------------------------------------------------------------------------
(* Version strings.                                                        *)

DigitValue(c) ==
    CASE c = "0" -> 0 [] c = "1" -> 1 [] c = "2" -> 2 [] c = "3" -> 3
      [] c = "4" -> 4 [] c = "5" -> 5 [] c = "6" -> 6 [] c = "7" -> 7
      [] c = "8" -> 8 [] c = "9" -> 9

\* Number(part) for a part made of decimal digits, read from digit i on
\* with the value so far.
RECURSIVE NumberFrom(_, _, _)
NumberFrom(part, i, value) ==
    IF i > Len(part) THEN value
    ELSE NumberFrom(part, i + 1, 10 * value + DigitValue(part[i]))

Number(part) == NumberFrom(part, 1, 0)

\* version.split('.') from character i on, `part` being the characters
\* read since the last dot.
RECURSIVE SplitFrom(_, _, _)
SplitFrom(s, i, part) ==
    IF i > Len(s) THEN <<part>>
    ELSE IF s[i] = "." THEN <<part>> \o SplitFrom(s, i + 1, <<>>)
    ELSE SplitFrom(s, i + 1, Append(part, s[i]))

Split(s) == SplitFrom(s, 1, <<>>)

\* parts.map(Number)
RECURSIVE MapNumber(_)
MapNumber(parts) ==
    IF parts = <<>> THEN <<>>
    ELSE <<Number(Head(parts))>> \o MapNumber(Tail(parts))

\* version.split('.').map(Number)
Parts(version) == MapNumber(Split(version))

\* The loop of compareVersionsDescending from part i on.  A part that b
\* lacks is undefined: both comparisons with it are false.
RECURSIVE CompareFrom(_, _, _)
CompareFrom(partsA, partsB, i) ==
    IF i > Len(partsA) THEN 0
    ELSE IF i <= Len(partsB) /\ partsA[i] > partsB[i] THEN -1
    ELSE IF i <= Len(partsB) /\ partsA[i] < partsB[i] THEN 1
    ELSE CompareFrom(partsA, partsB, i + 1)

\* compareVersionsDescending(a, b), on a.version and b.version: negative
\* when a sorts first.
compareVersionsDescending(a, b) == CompareFrom(Parts(a), Parts(b), 1)

\* cachedModuleVersions.sort(compareVersionsDescending): the versions in the
\* order the comparator puts them in.
RECURSIVE SortDescending(_)
SortDescending(versions) ==
    IF versions = {} THEN <<>>
    ELSE LET first == CHOOSE v \in versions :
                          \A w \in versions : compareVersionsDescending(v, w) <= 0
         IN  <<first>> \o SortDescending(versions \ {first})

-----------------------------------------------------------------------------
(* semver, for numeric major.minor.patch versions and valid ranges.        *)

\* major.minor.patch of a version string.
SemVer(version) == Parts(version)

\* semver.lt(a, b), a and b parsed.
SemverLt(a, b) ==
    \/ a[1] < b[1]
    \/ a[1] = b[1] /\ a[2] < b[2]
    \/ a[1] = b[1] /\ a[2] = b[2] /\ a[3] < b[3]

SemverGte(a, b) == ~SemverLt(a, b)

\* One comparator of a range against a parsed version.
SatisfiesComparator(v, c) ==
    LET f == SemVer(c.v) IN
    CASE c.op = "^" ->
           /\ SemverGte(v, f)
           /\ IF f[1] > 0 THEN v[1] = f[1]
              ELSE IF f[2] > 0 THEN v[1] = 0 /\ v[2] = f[2]
              ELSE v[1] = 0 /\ v[2] = 0 /\ v[3] = f[3]
      [] c.op = "~" -> SemverGte(v, f) /\ v[1] = f[1] /\ v[2] = f[2]
      [] c.op = "=" -> v = f
      [] c.op = ">=" -> SemverGte(v, f)

V090 == <<"0", ".", "9", ".", "0">>
V100 == <<"1", ".", "0", ".", "0">>
V120 == <<"1", ".", "2", ".", "0">>
V150 == <<"1", ".", "5", ".", "0">>
V1100 == <<"1", ".", "1", "0", ".", "0">>
V200 == <<"2", ".", "0", ".", "0">>
V300 == <<"3", ".", "0", ".", "0">>

Comparator(op, v) == [op |-> op, v |-> v]

\* new Range(range): the ||-alternatives of a range string, in the order
\* they are written.
ParseRange(range) ==
    CASE range = "^1.0.0" -> <<Comparator("^", V100)>>
      [] range = "^1.2.0" -> <<Comparator("^", V120)>>
      [] range = "^2.0.0" -> <<Comparator("^", V200)>>
      [] range = "^3.0.0" -> <<Comparator("^", V300)>>
      [] range = "~1.2.0" -> <<Comparator("~", V120)>>
      [] range = "1.5.0" -> <<Comparator("=", V150)>>
      [] range = ">=1.2.0" -> <<Comparator(">=", V120)>>
      [] range = "^1.0.0 || ^2.0.0" ->
             <<Comparator("^", V100), Comparator("^", V200)>>
      [] range = "^1.0.0 || ^3.0.0" ->
             <<Comparator("^", V100), Comparator("^", V300)>>
      [] range = "^2.0.0 || ^1.0.0" ->
             <<Comparator("^", V200), Comparator("^", V100)>>
      [] range = "^3.0.0 || ^1.0.0" ->
             <<Comparator("^", V300), Comparator("^", V100)>>

\* semver.satisfies(version, range): some ||-alternative of the range holds.
Satisfies(version, range) ==
    LET v == SemVer(version)
        alternatives == ParseRange(range)
    IN  \E i \in 1..Len(alternatives) : SatisfiesComparator(v, alternatives[i])

\* semver.coerce(range): the first version number written in the range.
Coerce(range) == SemVer(ParseRange(range)[1].v)

-----------------------------------------------------------------------------
(* The store lookup of copyDependency.                                     *)

NoVersion == <<>>

\* A scan that keeps the first satisfying version instead of the last.
RECURSIVE ScanFirstMatch(_, _, _, _)
ScanFirstMatch(sorted, i, range, last) ==
    IF i > Len(sorted) THEN last
    ELSE IF ~Satisfies(sorted[i], range)
         THEN IF SemverLt(SemVer(sorted[i]), Coerce(range))
              THEN last
              ELSE ScanFirstMatch(sorted, i + 1, range, last)
         ELSE sorted[i]

FindFirstSatisfying(sorted, range) == ScanFirstMatch(sorted, 1, range, NoVersion)

\* The for loop over cachedModuleVersions, from candidate i on, with
\* lastSatisfyingVersion so far.
RECURSIVE ScanVersions(_, _, _, _)
ScanVersions(sorted, i, range, last) ==
    IF i > Len(sorted) THEN last
    ELSE IF ~Satisfies(sorted[i], range)
         THEN IF SemverLt(SemVer(sorted[i]), Coerce(range))
              THEN last                                       \* break
              ELSE ScanVersions(sorted, i + 1, range, last)   \* continue
         ELSE ScanVersions(sorted, i + 1, range, sorted[i])

\* lastSatisfyingVersion after the loop (NoVersion for undefined).
FindSatisfying(sorted, range) == ScanVersions(sorted, 1, range, NoVersion)

-----------------------------------------------------------------------------
(* The packages of a run.  A record is one object built by                 *)
(* buildDependencyTree: "root" is the source package, "La" the copy of a   *)
(* installed in the root's own node_modules, "S<n><v>" the copy of n at    *)
(* major version v found in the .pnpm store.  name and version are read    *)
(* from package.json once and never written again.                         *)

Names == {"a", "b", "c"}

StoreRecords == {"Sa2", "Sb1", "Sb2", "Sc1", "Sc2"}

Records == {"root", "La"} \cup StoreRecords

NoModule == "undefined"

ModuleName(m) ==
    CASE m = "root" -> "root"
      [] m \in {"La", "Sa2"} -> "a"
      [] m \in {"Sb1", "Sb2"} -> "b"
      [] m \in {"Sc1", "Sc2"} -> "c"

ModuleVersion(m) == IF m \in {"Sa2", "Sb2", "Sc2"} THEN V200 ELSE V100

\* Path segments.
NodeModules == "node_modules"
TargetRoot == <<>>
NoDir == <<"undefined">>

\* The ranges the packages of a run declare, as package.json writes them.
HoistRanges == {"^1.0.0", "^2.0.0"}

\* The wantDependencies a package.json can declare over `names`: one entry
\* per name at most (an object has one value per key), the keys in name
\* order, the order npm and pnpm write them in.
NameOrder == <<"a", "b", "c">>
Absent == "-"
WantLists(names) ==
    {SelectSeq([i \in 1..Len(NameOrder) |->
                   [name |-> NameOrder[i], range |-> declared[NameOrder[i]]]],
               LAMBDA w : w.range # Absent) :
        declared \in [Names -> HoistRanges \cup {Absent}] \cap
                     {d \in [Names -> HoistRanges \cup {Absent}] :
                         \A n \in Names \ names : d[n] = Absent}}

-----------------------------------------------------------------------------
(* copyDependency: which record is copied for one wanted name.             *)

\* Object.values(cachedModule) sorted, as version strings: the index keeps
\* one record per version of a name.
CachedModuleVersions(moduleName) ==
    SortDescending({ModuleVersion(m) : m \in cachedModuleMap[moduleName]})

\* The record copyDependency passes to _copyDependency, or why it passes
\* none: "installed" (from the requirer's node_modules), "cached" (from the
\* store), "notInCache" (first console.error), "noVersion" (second one).
ResolveSource(depTree, moduleName, requiredVersion) ==
    LET installedModule == installedDependencies[depTree][moduleName] IN
    IF installedModule # NoModule
    THEN [kind |-> "installed", module |-> installedModule]
    ELSE IF cachedModuleMap[moduleName] = {}
    THEN [kind |-> "notInCache", module |-> NoModule]
    ELSE LET last == FindSatisfying(CachedModuleVersions(moduleName),
                                    requiredVersion)
         IN  IF last # NoVersion
             THEN [kind |-> "cached",
                   module |-> CHOOSE m \in cachedModuleMap[moduleName] :
                                  ModuleVersion(m) = last]
             ELSE [kind |-> "noVersion", module |-> NoModule]

-----------------------------------------------------------------------------
(* _copyDependency: where the record is copied.                            *)

\* A lookup that never finds the hoisted copy.
ExistingCopyForgotten(map, moduleName) == NoModule

\* existingCopy = copyMap[module.name]
ExistingCopy(map, moduleName) == map[moduleName]

\* A test that finds no hoisted copy good enough.
ExistingNeverSatisfies(existingCopy, requiredVersion) == FALSE

\* semver.satisfies(existingCopy.version, requiredVersion)
ExistingSatisfies(existingCopy, requiredVersion) ==
    Satisfies(ModuleVersion(existingCopy), requiredVersion)

\* targetModuleDir = path.join(targetDir, module.name)
TargetModuleDir(moduleName) == TargetRoot \o <<moduleName>>

\* targetModuleVersionDir =
\*     path.join(requiredBy.targetDir, "node_modules", module.name)
TargetModuleVersionDir(requiredByDir, moduleName) ==
    requiredByDir \o <<NodeModules, moduleName>>

-----------------------------------------------------------------------------
(* copyDependencies: the loop over a package's wantDependencies.  A frame  *)
(* is one call: depTree is the record it iterates, idx the entry it is at, *)
(* numModules its counter.  copy is the position in copyLog of the copy of *)
(* depTree this call works for (0 for the root, which is not copied); the  *)
(* code keeps no such value, it reads depTree.targetDir.                   *)

Frame(depTree, copy) ==
    [depTree |-> depTree, idx |-> 1, numModules |-> 0, copy |-> copy]

Top == stack[Len(stack)]

\* The loop of the innermost call has an entry left.
HasWant ==
    /\ pc = "copy"
    /\ stack # <<>>
    /\ Top.idx <= Len(wantDependencies[Top.depTree])

Want == wantDependencies[Top.depTree][Top.idx]

Source == ResolveSource(Top.depTree, Want.name, Want.range)

\* depStack of the innermost call: its record first, the root last.
DepStack == [i \in 1..Len(stack) |-> stack[Len(stack) + 1 - i].depTree]

\* The loop goes on to its next entry, adding n to numModules.
NextWant(n) ==
    [stack EXCEPT ![Len(stack)] =
        [@ EXCEPT !.idx = @ + 1, !.numModules = @ + n]]

\* The copy made for the entry, and the call into the copied package.
CopyTo(module, dest, hoisted) ==
    /\ copyLog' = Append(copyLog,
           [module |-> module, dest |-> dest, hoisted |-> hoisted,
            requiredBy |-> Top.depTree, requiredByCopy |-> Top.copy,
            range |-> Want.range])
    /\ targetDir' = [targetDir EXCEPT ![module] = dest]
    /\ stack' = Append(stack, Frame(module, Len(copyLog) + 1))

\* No hoisted copy of the name yet: copy to target/<name>, enter it in
\* copyMap, recurse.
CopyToRoot(module) ==
    /\ ExistingCopy(copyMap, ModuleName(module)) = NoModule
    /\ Len(stack) < MaxDepth
    /\ CopyTo(module, TargetModuleDir(ModuleName(module)), TRUE)
    /\ copyMap' = [copyMap EXCEPT ![ModuleName(module)] = module]
    /\ UNCHANGED diagnostics

\* A hoisted copy that does not satisfy the range: copy under the
\* requirer's targetDir, recurse.
CopyNested(module) ==
    /\ ExistingCopy(copyMap, ModuleName(module)) # NoModule
    /\ ~ExistingSatisfies(ExistingCopy(copyMap, ModuleName(module)), Want.range)
    /\ Len(stack) < MaxDepth
    /\ CopyTo(module,
              TargetModuleVersionDir(targetDir[Top.depTree], ModuleName(module)),
              FALSE)
    /\ UNCHANGED <<copyMap, diagnostics>>

\* A hoisted copy that satisfies the range: return 0.
ReuseExisting(module) ==
    /\ ExistingCopy(copyMap, ModuleName(module)) # NoModule
    /\ ExistingSatisfies(ExistingCopy(copyMap, ModuleName(module)), Want.range)
    /\ stack' = NextWant(0)
    /\ UNCHANGED <<copyMap, targetDir, copyLog, diagnostics>>

\* Neither installed nor indexed, or no indexed version chosen:
\* console.error, return 0.
ReportUnresolved(kind) ==
    /\ diagnostics' = Append(diagnostics,
           [moduleName |-> Want.name, requiredVersion |-> Want.range,
            kind |-> kind, stack |-> DepStack])
    /\ stack' = NextWant(0)
    /\ UNCHANGED <<copyMap, targetDir, copyLog>>

\* One pass of the loop: copyDependency for the entry, up to the call into
\* the copied package or to its return of 0.
CopyDependency ==
    /\ HasWant
    /\ LET source == Source IN
          \/ /\ source.module # NoModule
             /\ \/ CopyToRoot(source.module)
                \/ CopyNested(source.module)
                \/ ReuseExisting(source.module)
          \/ /\ source.module = NoModule
             /\ ReportUnresolved(source.kind)
    /\ UNCHANGED <<wantDependencies, installedDependencies, cachedModuleMap,
                   pc, numModules, resolverVars>>

\* The loop of a copied package is over: _copyDependency returns
\* 1 + numDependencies to the loop that called it.
ReturnToRequirer ==
    /\ pc = "copy"
    /\ Len(stack) > 1
    /\ Top.idx > Len(wantDependencies[Top.depTree])
    /\ stack' = [SubSeq(stack, 1, Len(stack) - 1) EXCEPT ![Len(stack) - 1] =
                    [@ EXCEPT !.idx = @ + 1,
                              !.numModules = @ + 1 + Top.numModules]]
    /\ UNCHANGED <<wantDependencies, installedDependencies, cachedModuleMap,
                   copyMap, targetDir, copyLog, diagnostics, pc, numModules,
                   resolverVars>>

\* The root's loop is over: hoist logs the count and is done.
Finish ==
    /\ pc = "copy"
    /\ Len(stack) = 1
    /\ Top.idx > Len(wantDependencies[Top.depTree])
    /\ numModules' = Top.numModules
    /\ pc' = "done"
    /\ stack' = <<>>
    /\ UNCHANGED <<wantDependencies, installedDependencies, cachedModuleMap,
                   copyMap, targetDir, copyLog, diagnostics, resolverVars>>

-----------------------------------------------------------------------------
(* A run of hoist, from the call of copyDependencies on the root: the      *)
(* dependency tree and the store index are built, copyMap is empty, only   *)
(* the root has a targetDir.                                               *)

ResolverIdle ==
    /\ rsVersions = {}
    /\ rsRange = "^1.0.0"
    /\ rsSorted = <<>>
    /\ rsResult = NoVersion
    /\ rsPc = "idle"

NoInstalled == [n \in Names |-> NoModule]

\* The source tree and store of a run: the root declares dependencies on
\* a, b, c and, when it declares a, may have a@1.0.0 installed; the store,
\* when findPnpmDir finds one, indexes a@2.0.0, b@1.0.0, b@2.0.0, c@1.0.0
\* and c@2.0.0, whose 2.0.0 packages declare dependencies on the other two
\* names.
Init ==
    /\ \E rootWants \in WantLists(Names), local \in BOOLEAN,
          store \in BOOLEAN :
       \E wa \in IF store THEN WantLists({"b", "c"}) ELSE {<<>>},
          wb \in IF store THEN WantLists({"a", "c"}) ELSE {<<>>},
          wc \in IF store THEN WantLists({"a", "b"}) ELSE {<<>>} :
          /\ local => \E i \in 1..Len(rootWants) : rootWants[i].name = "a"
          /\ wantDependencies =
                [m \in Records |->
                    CASE m = "root" -> rootWants
                      [] m = "Sa2" -> wa
                      [] m = "Sb2" -> wb
                      [] m = "Sc2" -> wc
                      [] OTHER -> <<>>]
          /\ installedDependencies =
                [m \in Records |->
                    IF m = "root" /\ local
                    THEN [NoInstalled EXCEPT !["a"] = "La"]
                    ELSE NoInstalled]
          /\ cachedModuleMap =
                [n \in Names |->
                    IF store
                    THEN {m \in StoreRecords : ModuleName(m) = n}
                    ELSE {}]
    /\ copyMap = [n \in Names |-> NoModule]
    /\ targetDir = [m \in Records |-> IF m = "root" THEN TargetRoot ELSE NoDir]
    /\ stack = <<Frame("root", 0)>>
    /\ copyLog = <<>>
    /\ diagnostics = <<>>
    /\ pc = "copy"
    /\ numModules = 0
    /\ ResolverIdle

Next ==
    \/ CopyDependency
    \/ ReturnToRequirer
    \/ Finish

Spec == Init /\ [][Next]_vars

-----------------------------------------------------------------------------
(* The store lookup taken alone: the else branch of copyDependency for a   *)
(* name the store indexes, from Object.values(cachedModule) to the choice  *)
(* between _copyDependency and console.error.                              *)

\* The versions the store may index for the name.
VersionPool == {V090, V100, V120, V150, V1100, V200, V300}

\* The ranges a requirer may declare for it.
ResolverRanges ==
    {"^1.0.0", "^1.2.0", "^2.0.0", "^3.0.0", "~1.2.0", "1.5.0", ">=1.2.0",
     "^1.0.0 || ^2.0.0", "^1.0.0 || ^3.0.0", "^2.0.0 || ^1.0.0",
     "^3.0.0 || ^1.0.0"}

HoistIdle ==
    /\ wantDependencies = [m \in Records |-> <<>>]
    /\ installedDependencies = [m \in Records |-> NoInstalled]
    /\ cachedModuleMap = [n \in Names |-> {}]
    /\ copyMap = [n \in Names |-> NoModule]
    /\ targetDir = [m \in Records |-> NoDir]
    /\ stack = <<>>
    /\ copyLog = <<>>
    /\ diagnostics = <<>>
    /\ pc = "idle"
    /\ numModules = 0

InitResolver ==
    /\ rsVersions \in {c \in SUBSET VersionPool :
                          c # {} /\ Cardinality(c) <= MaxCandidates}
    /\ rsRange \in ResolverRanges
    /\ rsSorted = <<>>
    /\ rsResult = NoVersion
    /\ rsPc = "sort"
    /\ HoistIdle

\* cachedModuleVersions.sort(compareVersionsDescending)
SortCandidates ==
    /\ rsPc = "sort"
    /\ rsSorted' = SortDescending(rsVersions)
    /\ rsPc' = "scan"
    /\ UNCHANGED <<rsVersions, rsRange, rsResult, hoistVars>>

\* The for loop, then the if on lastSatisfyingVersion: "copy" when
\* _copyDependency is called with it, "report" on console.error.
FindVersion ==
    /\ rsPc = "scan"
    /\ rsResult' = FindSatisfying(rsSorted, rsRange)
    /\ rsPc' = IF rsResult' # NoVersion THEN "copy" ELSE "report"
    /\ UNCHANGED <<rsVersions, rsRange, rsSorted, hoistVars>>

NextResolver == SortCandidates \/ FindVersion

SpecResolver == InitResolver /\ [][NextResolver]_vars

-----------------------------------------------------------------------------
(* What a run has written, read back from copyLog.                         *)

Copies == 1..Len(copyLog)

\* The directory the copy at position k of copyLog was written to; the
\* target directory for the root, which is position 0.
PlacedAt(k) == IF k = 0 THEN TargetRoot ELSE copyLog[k].dest

\* The package directories of the target tree.
PackageDirs == {copyLog[k].dest : k \in Copies}

\* The number of names hoisted when copy k had been made: the size of
\* copyMap at the start of the call that works for copy k.
HoistedBy(k) == Cardinality({i \in 1..k : copyLog[i].hoisted})

\* The recursion cannot return: a record is being iterated inside its own
\* iteration and copyMap has not grown in between.  Which copies are made
\* depends on the record, the tree, the store index and copyMap only, so
\* the inner call repeats what the outer one did and reaches the same
\* record again, one level deeper, without end.  A run returns exactly when
\* this never happens: without it the depth is bounded by the number of
\* records times the number of sizes of copyMap, and every loop is finite.
Diverged ==
    \E i, j \in 1..Len(stack) :
        /\ i < j
        /\ stack[i].depTree = stack[j].depTree
        /\ HoistedBy(stack[i].copy) = HoistedBy(stack[j].copy)

\* The model follows a run MaxDepth calls deep; only runs that cannot
\* return get there.
DepthBoundOnlyCutsDivergedRuns == Len(stack) = MaxDepth => Diverged

-----------------------------------------------------------------------------
(* The cases of _copyDependency, as the claims state them.                 *)

\* The entry the innermost loop is at resolves to a record.
Resolved == HasWant /\ Source.module # NoModule

\* copyMap holds a record for the wanted name whose version satisfies the
\* wanted range.
ReuseCase ==
    /\ Resolved
    /\ copyMap[Want.name] # NoModule
    /\ Satisfies(ModuleVersion(copyMap[Want.name]), Want.range)

\* copyMap holds a record for the wanted name whose version does not
\* satisfy the wanted range.
ConflictCase ==
    /\ Resolved
    /\ copyMap[Want.name] # NoModule
    /\ ~Satisfies(ModuleVersion(copyMap[Want.name]), Want.range)

\* The entry has no installed copy, and the store has no entry for the
\* name or the resolver chooses no version.
UnresolvedCase == HasWant /\ Source.module = NoModule

\* The innermost loop moves to its next entry and adds n to its count;
\* no call is entered or left.
LoopGoesOn(n) ==
    /\ Len(stack') = Len(stack)
    /\ SubSeq(stack', 1, Len(stack) - 1) = SubSeq(stack, 1, Len(stack) - 1)
    /\ Top' = [Top EXCEPT !.idx = @ + 1, !.numModules = @ + n]

-----------------------------------------------------------------------------
(* C1 *)

CopiesOf(n) == {k \in Copies : ModuleName(copyLog[k].module) = n}

FirstCopyOf(n) == CHOOSE k \in CopiesOf(n) : \A j \in CopiesOf(n) : k <= j

C1_RootCopies ==
    \A n \in Names :
        IF CopiesOf(n) = {}
        THEN copyMap[n] = NoModule
        ELSE /\ copyMap[n] = copyLog[FirstCopyOf(n)].module
             /\ copyLog[FirstCopyOf(n)].dest = <<n>>
             /\ \A k \in CopiesOf(n) \ {FirstCopyOf(n)} :
                   /\ copyLog[k].dest # <<n>>
                   /\ \E j \in 0..(k - 1) :
                         /\ j = 0 \/ copyLog[j].module = copyLog[k].requiredBy
                         /\ copyLog[k].dest = PlacedAt(j) \o <<NodeModules, n>>

C1_EntryKept ==
    \A n \in Names : copyMap[n] # NoModule => copyMap'[n] = copyMap[n]

\* C1: copyMap holds at most one record per name and an entry, once made,
\* is never replaced or removed; target/<name> is written by the first copy
\* of the name only, and every later copy of the name is written to
\* <dir>/node_modules/<name>, <dir> being a directory its requirer was
\* placed at (the target directory when the requirer is the root).
C1_AtMostOneRootCopy == [](C1_RootCopies) /\ [][C1_EntryKept]_vars

\* A name has been copied twice: hoisted first, nested later.
C1_Witness ==
    \E n \in Names : \E k \in CopiesOf(n) :
        /\ k # FirstCopyOf(n)
        /\ copyLog[FirstCopyOf(n)].hoisted
        /\ ~copyLog[k].hoisted
        /\ ModuleVersion(copyLog[k].module) # ModuleVersion(copyMap[n])

-----------------------------------------------------------------------------
(* C2 *)

\* Every installed copy satisfies the range its requirer declares.
InstalledSatisfy ==
    \A m \in Records : \A i \in 1..Len(wantDependencies[m]) :
        LET w == wantDependencies[m][i]
            installed == installedDependencies[m][w.name]
        IN  installed # NoModule => Satisfies(ModuleVersion(installed), w.range)

\* The version found in a package directory: that of the last copy
\* written there.
VersionAt(dir) ==
    LET last == CHOOSE k \in Copies :
                    /\ copyLog[k].dest = dir
                    /\ \A j \in Copies : copyLog[j].dest = dir => j <= k
    IN  ModuleVersion(copyLog[last].module)

\* The package directories that enclose dir, and dir.
Enclosing(dir) == {SubSeq(dir, 1, n) : n \in 1..Len(dir)} \cap PackageDirs

\* The directories dir/node_modules/<name>, A/node_modules/<name> for the
\* enclosing package directories A, that exist.
NestedFound(dir, name) ==
    {a \in Enclosing(dir) : (a \o <<NodeModules, name>>) \in PackageDirs}

\* The nearest copy of name seen from dir: the innermost of NestedFound,
\* else target/<name>; NoDir when there is none.
Nearest(dir, name) ==
    IF NestedFound(dir, name) # {}
    THEN (CHOOSE a \in NestedFound(dir, name) :
              \A b \in NestedFound(dir, name) : Len(b) <= Len(a))
         \o <<NodeModules, name>>
    ELSE IF <<name>> \in PackageDirs THEN <<name>> ELSE NoDir

\* C2: after a run, when every installed copy satisfies its requirer's
\* range, every dependency of every placed copy that was resolved without
\* a diagnostic is satisfied by the nearest copy of its name.
C2_DependencySatisfying ==
    (pc = "done" /\ InstalledSatisfy) =>
        \A k \in Copies :
            \A i \in 1..Len(wantDependencies[copyLog[k].module]) :
                LET w == wantDependencies[copyLog[k].module][i]
                    near == Nearest(copyLog[k].dest, w.name)
                IN  ResolveSource(copyLog[k].module, w.name, w.range).module
                        # NoModule
                    => /\ near # NoDir
                       /\ Satisfies(VersionAt(near), w.range)

-----------------------------------------------------------------------------
(* C3 *)

LastCopy == copyLog'[Len(copyLog')]

\* C3: in the conflict case the chosen source is copied to
\* <T>/node_modules/<name>, T being the directory the copy of the requirer
\* that the running call works for was placed at, and copyMap is left as
\* it is.
C3_ConflictIsolation ==
    [][ConflictCase =>
          /\ Len(copyLog') = Len(copyLog) + 1
          /\ LastCopy.module = Source.module
          /\ LastCopy.dest = PlacedAt(Top.copy) \o <<NodeModules, Want.name>>
          /\ copyMap' = copyMap]_vars

-----------------------------------------------------------------------------
(* C4 *)

\* C4: in the reuse case the step copies nothing, enters no call, leaves
\* copyMap and every targetDir as they are and adds 0 to the count.
C4_Reuse ==
    [][ReuseCase =>
          /\ copyLog' = copyLog
          /\ copyMap' = copyMap
          /\ targetDir' = targetDir
          /\ diagnostics' = diagnostics
          /\ LoopGoesOn(0)]_vars

\* The loop has just passed an entry that resolved to a record without a
\* copy being made for it: the entry was served by the hoisted copy.
C4_Witness ==
    /\ pc = "copy"
    /\ stack # <<>>
    /\ Top.idx > 1
    /\ LET w == wantDependencies[Top.depTree][Top.idx - 1] IN
          /\ ResolveSource(Top.depTree, w.name, w.range).module # NoModule
          /\ copyMap[w.name] # NoModule
          /\ Satisfies(ModuleVersion(copyMap[w.name]), w.range)
          /\ \A k \in Copies :
                copyLog[k].requiredByCopy = Top.copy
                    => ModuleName(copyLog[k].module) # w.name

-----------------------------------------------------------------------------
(* C5 *)

\* C5: an unresolved dependency is reported once, copies nothing, leaves
\* copyMap as it is, adds 0 to the count and lets the loop go on; and the
\* run that reported it goes on to return.
C5_UnresolvedNonFatal ==
    /\ [][UnresolvedCase =>
             /\ Len(diagnostics') = Len(diagnostics) + 1
             /\ copyLog' = copyLog
             /\ copyMap' = copyMap
             /\ LoopGoesOn(0)]_vars
    /\ [](diagnostics # <<>> => ~Diverged)

-----------------------------------------------------------------------------
(* C8 *)

\* C8: every run returns.  (A run returns exactly when it never reaches a
\* Diverged state.)
C8_Terminates == ~Diverged

-----------------------------------------------------------------------------
(* C9 *)

\* C9: a record's targetDir is assigned when a copy of the record is made,
\* to where the copy is written, and is never assigned again.
C9_TargetDirAssignedOnce ==
    [][\A m \in Records :
          /\ targetDir'[m] # targetDir[m] =>
                /\ Len(copyLog') = Len(copyLog) + 1
                /\ LastCopy.module = m
                /\ LastCopy.dest = targetDir'[m]
          /\ targetDir[m] # NoDir => targetDir'[m] = targetDir[m]]_vars

-----------------------------------------------------------------------------
(* C10 *)

\* C10: no directory is the destination of two copies, and the count the
\* run returns is the number of package directories in the target tree.
C10_NoDuplicateWork ==
    /\ \A j, k \in Copies : j # k => copyLog[j].dest # copyLog[k].dest
    /\ pc = "done" => numModules = Cardinality(PackageDirs)

-----------------------------------------------------------------------------
(* C6 *)

\* C6: a dependency without an installed copy is reported unresolved only
\* when no indexed version of its name satisfies the range: if one does,
\* the resolver selects a version and _copyDependency is called with it.
C6_ReportedOnlyIfNoneSatisfies ==
    (rsPc \in {"copy", "report"}
        /\ \E v \in rsVersions : Satisfies(v, rsRange))
    => rsPc = "copy" /\ rsResult # NoVersion

-----------------------------------------------------------------------------
(* C7 *)

\* a comes before b in descending numeric order of the parts.
NumericallyGreater(a, b) == SemverLt(Parts(b), Parts(a))

\* The candidates that end the scan: not satisfying and strictly below the
\* coerced range.
Stoppers ==
    {i \in 1..Len(rsSorted) :
        /\ ~Satisfies(rsSorted[i], rsRange)
        /\ SemverLt(SemVer(rsSorted[i]), Coerce(rsRange))}

\* The satisfying candidates the scan sees before it ends.
Seen ==
    {i \in 1..Len(rsSorted) :
        /\ Satisfies(rsSorted[i], rsRange)
        /\ \A j \in Stoppers : i < j}

=============================================================================
